---- MODULE Spec2Model ----
(***************************************************************************)
(* Model of malloclab-handout/mm.c: an explicit-free-list allocator with   *)
(* boundary tags, first fit, immediate coalescing and page-chunk growth.   *)
(*                                                                         *)
(* Memory is modelled word by word: mem maps the address of every 8-byte   *)
(* word that has been written to the value it holds; a mapped word that    *)
(* was never written reads 0 (fresh pages are zero filled).  Headers,      *)
(* footers and the in-place prev/next links are ordinary words, so a link  *)
(* written over a tag is seen as the code would see it.  An access to an   *)
(* address outside every mapped region ends the run (status "crashed").    *)
(* size_t arithmetic wraps modulo W.                                       *)
(***************************************************************************)
EXTENDS Integers, Sequences, FiniteSets, TLC

VARIABLES mem,            \* written words of the mapped regions
          maps,           \* regions currently mapped: [base, size]
          list_head,      \* mm.c:79
          initial_mapped, \* mm.c:80
          status,         \* "ok", "crashed" (fault/abort) or "hung" (endless loop)
          lo, hi,         \* Page Provider: lowest / highest address handed out so far
          live,           \* blocks returned by mm_malloc and not yet released
          carved,         \* bases of the chunks a block was handed out from since mm_init
          lastOp,         \* what the last public operation did
          reqs,           \* sizes of the last two mem_map requests since mm_init
          only64,         \* since mm_init only mm_malloc(64) was called
          nOps,           \* number of public operations so far
          menu,           \* the request sizes the caller draws from
          limit           \* the number of public operations the caller makes

vars == <<mem, maps, list_head, initial_mapped, status, lo, hi, live, carved,
          lastOp, reqs, only64, nOps, menu, limit>>

-----------------------------------------------------------------------------
(* Bounds of the model *)

MaxOps == 5
MaxOpsGrow == 4
MaxOps64 == 3300

\* request sizes offered to mm_malloc
Sizes == {0, 100, 40000, 122000}
SizesGrow == {0, 122000, 126960}

-----------------------------------------------------------------------------
(* Constants and macros, mm.c:31-72 *)

\* size_t: values are kept modulo W (the model's word modulus)
W == 2^30

NULL == 0

ALIGNMENT == 16
WSIZE == 8
DSIZE == 16
PAGE_OVERHEAD == 32
THRESHOLD == 4096 * 60
SHRINK == 4096 * 10
OVERHEAD == 8 + 8

\* Page Provider: page size and the address of the first region
mem_pagesize == 4096
Base == 2^28

Add(a, b) == (a + b) % W
Sub(a, b) == ((a % W) + W - (b % W)) % W

\* x & ~(m-1) for a power of two m
AndNot(x, m) == x - (x % m)

ALIGN(size) == AndNot(Add(size, ALIGNMENT - 1), ALIGNMENT)

PAGE_ALIGN(size) == AndNot(Add(size, mem_pagesize - 1), mem_pagesize)

PACK(size, alloc) == IF alloc = 1 /\ size % 2 = 1 THEN size ELSE size + alloc

HDRP(bp) == Sub(bp, 8)

\* an access of the word at p is valid when p lies in a mapped region
Valid(s, p) == \E r \in s.maps : r.base <= p /\ p + 8 <= r.base + r.size

GET(s, p) == IF p \in DOMAIN s.mem THEN s.mem[p] ELSE 0

GET_ALLOC(s, p) == GET(s, p) % 2
GET_SIZE(s, p) == AndNot(GET(s, p), 16)

\* a read of the word at p: faults when p is not mapped
Chk(s, p) ==
  IF s.fault # "none" THEN s
  ELSE IF ~Valid(s, p) THEN [s EXCEPT !.fault = "segv"]
  ELSE IF p % 8 # 0 THEN [s EXCEPT !.fault = "misaligned"]
  ELSE s

PUT(s, p, val) ==
  IF s.fault # "none" THEN s
  ELSE IF ~Valid(s, p) THEN [s EXCEPT !.fault = "segv"]
  ELSE IF p % 8 # 0 THEN [s EXCEPT !.fault = "misaligned"]
  ELSE IF p \in DOMAIN s.mem THEN [s EXCEPT !.mem[p] = val]
  ELSE [s EXCEPT !.mem = (p :> val) @@ s.mem]

FTRP(s, bp) == Sub(Add(bp, GET_SIZE(s, HDRP(bp))), OVERHEAD)
NEXT_BLKP(s, bp) == Add(bp, GET_SIZE(s, HDRP(bp)))
PREV_BLKP(s, bp) == Sub(bp, GET_SIZE(s, Sub(bp, OVERHEAD)))

\* PUT(HDRP(bp), val), PUT(FTRP(bp), val),
\* PUT(HDRP(NEXT_BLKP(bp)), val), PUT(FTRP(NEXT_BLKP(bp)), val),
\* PUT(HDRP(PREV_BLKP(bp)), val): each reads the tags its address is computed from
PutHdr(s, bp, val) == PUT(s, HDRP(bp), val)
PutFtr(s, bp, val) == PUT(Chk(s, HDRP(bp)), FTRP(s, bp), val)
PutNextHdr(s, bp, val) == PUT(Chk(s, HDRP(bp)), HDRP(NEXT_BLKP(s, bp)), val)
PutNextFtr(s, bp, val) == PutFtr(Chk(s, HDRP(bp)), NEXT_BLKP(s, bp), val)
PutPrevHdr(s, bp, val) == PUT(Chk(s, Sub(bp, OVERHEAD)), HDRP(PREV_BLKP(s, bp)), val)

SetHead(s, bp) == [s EXCEPT !.head = bp]

-----------------------------------------------------------------------------
(* Free list, mm.c:250-298.  list_node: prev at offset 0, next at offset 8 *)

\* if (list_head != NULL) list_head->prev = new_node;
add_node_back(s, bp) == IF s.head # NULL THEN PUT(s, s.head, bp) ELSE s

add_node(s, bp) ==
  SetHead(PUT(add_node_back(PUT(s, Add(bp, 8), s.head), bp), bp, NULL), bp)

\* current_node->next->prev = current_node->prev, the fields read again
delete_node_relink(s, bp) == PUT(s, GET(s, Add(bp, 8)), GET(s, bp))

\* after both fields of the node were read
delete_node_unlink(s, bp, prev, next) ==
  IF prev = NULL
  THEN IF next = NULL
       THEN SetHead(s, NULL)
       ELSE PUT(SetHead(s, next), next, NULL)
  ELSE IF next = NULL
       THEN PUT(s, Add(prev, 8), NULL)
       ELSE delete_node_relink(PUT(s, Add(prev, 8), next), bp)

delete_node(s, bp) ==
  delete_node_unlink(Chk(Chk(s, bp), Add(bp, 8)), bp, GET(s, bp), GET(s, Add(bp, 8)))

\* find_fit passing over a block of exactly the needed size
RECURSIVE find_fit_from_strict(_, _, _, _)
find_fit_from_strict(s, current, asize, seen) ==
  IF current = NULL THEN [ptr |-> NULL, st |-> s]
  ELSE IF current \in seen THEN [ptr |-> NULL, st |-> [s EXCEPT !.fault = "hang"]]
  ELSE IF ~Valid(s, HDRP(current)) THEN [ptr |-> NULL, st |-> Chk(s, HDRP(current))]
  ELSE IF GET_SIZE(s, HDRP(current)) > asize THEN [ptr |-> current, st |-> s]
  ELSE IF ~Valid(s, Add(current, 8)) THEN [ptr |-> NULL, st |-> Chk(s, Add(current, 8))]
  ELSE find_fit_from_strict(s, GET(s, Add(current, 8)), asize, seen \cup {current})

RECURSIVE find_fit_from(_, _, _, _)
find_fit_from(s, current, asize, seen) ==
  IF current = NULL THEN [ptr |-> NULL, st |-> s]
  ELSE IF current \in seen THEN [ptr |-> NULL, st |-> [s EXCEPT !.fault = "hang"]]
  ELSE IF ~Valid(s, HDRP(current)) THEN [ptr |-> NULL, st |-> Chk(s, HDRP(current))]
  ELSE IF GET_SIZE(s, HDRP(current)) >= asize THEN [ptr |-> current, st |-> s]
  ELSE IF ~Valid(s, Add(current, 8)) THEN [ptr |-> NULL, st |-> Chk(s, Add(current, 8))]
  ELSE find_fit_from(s, GET(s, Add(current, 8)), asize, seen \cup {current})

find_fit(s, asize) == find_fit_from(s, s.head, asize, {})

-----------------------------------------------------------------------------
(* Page Provider (memlib): mem_map / mem_unmap.  A region is placed directly *)
(* above or directly below everything handed out so far, or the request      *)
(* fails and NULL is returned.                                                *)

mem_map(s, size, where, plo, phi) ==
  IF where = "fail" THEN [st |-> s, bp |-> NULL, lo |-> plo, hi |-> phi]
  ELSE IF where = "hi"
  THEN [st |-> [s EXCEPT !.maps = @ \cup {[base |-> phi, size |-> size]}],
        bp |-> phi, lo |-> plo, hi |-> phi + size]
  ELSE [st |-> [s EXCEPT !.maps = @ \cup {[base |-> plo - size, size |-> size]}],
        bp |-> plo - size, lo |-> plo - size, hi |-> phi]

\* a call mem_unmap(addr, amt) names a mapped region
UnmapMatches(s, addr, amt) == [base |-> addr, size |-> amt] \in s.maps

mem_unmap(s, addr, amt) ==
  [s EXCEPT !.maps = @ \ {[base |-> addr, size |-> amt]},
            !.mem = [p \in {q \in DOMAIN s.mem : ~(addr <= q /\ q < addr + amt)} |-> s.mem[p]]]

-----------------------------------------------------------------------------
(* set_allocated, mm.c:151-167 *)

\* mm.c:157-161
set_allocated_split(s, bp, size, difference) ==
  LET s2 == PutHdr(s, bp, PACK(size, 1))
      s3 == PutFtr(s2, bp, PACK(size, 1))
      s4 == PutNextHdr(s3, bp, PACK(difference, 0))
      s5 == PutNextFtr(s4, bp, PACK(difference, 0))
  IN  add_node(Chk(s5, HDRP(bp)), NEXT_BLKP(s5, bp))

\* mm.c:164-165
set_allocated_whole(s, bp, initial_size) ==
  PutFtr(PutHdr(s, bp, PACK(initial_size, 1)), bp, PACK(initial_size, 1))

\* mm.c:154-166, after initial_size and difference were computed
set_allocated_rest(s, bp, size, initial_size, difference) ==
  IF difference > PAGE_OVERHEAD
  THEN set_allocated_split(delete_node(s, bp), bp, size, difference)
  ELSE set_allocated_whole(delete_node(s, bp), bp, initial_size)

set_allocated(s, bp, size) ==
  set_allocated_rest(Chk(s, HDRP(bp)), bp, size, GET_SIZE(s, HDRP(bp)),
                     Sub(GET_SIZE(s, HDRP(bp)), size))

-----------------------------------------------------------------------------
(* extend, mm.c:174-209 *)

\* extend trebling the tracker instead of doubling it
extend_size_triple(tracker, s) ==
  LET initial_size == PAGE_ALIGN(Add((tracker * 3) % W, PAGE_OVERHEAD))
      page_size == PAGE_ALIGN(Add(s, PAGE_OVERHEAD))
      size == IF page_size > initial_size THEN page_size
              ELSE IF initial_size <= THRESHOLD THEN initial_size
              ELSE tracker
  IN  [size |-> PAGE_ALIGN(Add(size, PAGE_OVERHEAD)),
       tracker |-> IF page_size > initial_size \/ initial_size <= THRESHOLD
                   THEN size ELSE tracker]

\* extend recording the size it passes to mem_map
extend_size_mapped(tracker, s) ==
  LET initial_size == PAGE_ALIGN(Add((tracker * 2) % W, PAGE_OVERHEAD))
      page_size == PAGE_ALIGN(Add(s, PAGE_OVERHEAD))
      size == IF page_size > initial_size THEN page_size
              ELSE IF initial_size <= THRESHOLD THEN initial_size
              ELSE tracker
  IN  [size |-> PAGE_ALIGN(Add(size, PAGE_OVERHEAD)),
       tracker |-> IF page_size > initial_size \/ initial_size <= THRESHOLD
                   THEN PAGE_ALIGN(Add(size, PAGE_OVERHEAD)) ELSE tracker]

\* the size requested from mem_map and the new growth tracker, mm.c:175-190
extend_size(tracker, s) ==
  LET initial_size == PAGE_ALIGN(Add((tracker * 2) % W, PAGE_OVERHEAD))
      page_size == PAGE_ALIGN(Add(s, PAGE_OVERHEAD))
      size == IF page_size > initial_size THEN page_size
              ELSE IF initial_size <= THRESHOLD THEN initial_size
              ELSE tracker
  IN  [size |-> PAGE_ALIGN(Add(size, PAGE_OVERHEAD)),
       tracker |-> IF page_size > initial_size \/ initial_size <= THRESHOLD
                   THEN size ELSE tracker]

\* PUT((FTRP(bp)+0x8), PACK(0,1)), mm.c:204
extend_terminator(s, bp) == PUT(Chk(s, HDRP(bp)), Add(FTRP(s, bp), 8), PACK(0, 1))

\* extend without the leading padding word: the block starts 24 bytes in
extend_format_nopad(s, bp0, size) ==
  LET s2 == PUT(s, bp0, PACK(16, 1))
      s3 == PUT(s2, Add(bp0, 8), PACK(16, 1))
      s4 == PUT(s3, Add(bp0, 16), PACK(Sub(size, PAGE_OVERHEAD), 0))
      s5 == PutFtr(s4, Add(bp0, 24), PACK(Sub(size, PAGE_OVERHEAD), 0))
      s6 == extend_terminator(s5, Add(bp0, 24))
  IN  add_node(s6, Add(bp0, 24))

\* mm.c:195-206 on the region at bp0
extend_format(s, bp0, size) ==
  LET s1 == PUT(s, bp0, 0)
      s2 == PUT(s1, Add(bp0, 8), PACK(16, 1))
      s3 == PUT(s2, Add(bp0, 16), PACK(16, 1))
      s4 == PUT(s3, Add(bp0, 24), PACK(Sub(size, PAGE_OVERHEAD), 0))
      s5 == PutFtr(s4, Add(bp0, 32), PACK(Sub(size, PAGE_OVERHEAD), 0))
      s6 == extend_terminator(s5, Add(bp0, 32))
  IN  add_node(s6, Add(bp0, 32))

extend_mapped(m, pol) ==
  [st |-> extend_format(m.st, m.bp, pol.size), tracker |-> pol.tracker,
   ret |-> Add(m.bp, 32), req |-> pol.size, lo |-> m.lo, hi |-> m.hi]

extend_with(s, pol, where, plo, phi) ==
  extend_mapped(mem_map(s, pol.size, where, plo, phi), pol)

extend(s, tracker, sz, where, plo, phi) ==
  extend_with(s, extend_size(tracker, sz), where, plo, phi)

-----------------------------------------------------------------------------
(* coalesce, mm.c:216-245 *)

\* mm.c:222
coalesce_none(s, bp) == [st |-> add_node(s, bp), bp |-> bp]

\* mm.c:225-229
coalesce_next(s, bp, size) ==
  LET s1 == delete_node(Chk(s, HDRP(bp)), NEXT_BLKP(s, bp))
      s2 == PutHdr(s1, bp, PACK(size, 0))
      s3 == PutFtr(s2, bp, PACK(size, 0))
  IN  [st |-> add_node(s3, bp), bp |-> bp]

\* bp = PREV_BLKP(bp), mm.c:235 and 242
coalesce_to_prev(s, bp) == [st |-> Chk(s, Sub(bp, OVERHEAD)), bp |-> PREV_BLKP(s, bp)]

\* mm.c:232-235
coalesce_prev(s, bp, size) ==
  coalesce_to_prev(PutFtr(PutPrevHdr(s, bp, PACK(size, 0)), bp, PACK(size, 0)), bp)

\* mm.c:238-242
coalesce_both(s, bp, size) ==
  LET s1 == delete_node(Chk(s, HDRP(bp)), NEXT_BLKP(s, bp))
      s2 == PutPrevHdr(s1, bp, PACK(size, 0))
      s3 == PutNextFtr(s2, bp, PACK(size, 0))
  IN  coalesce_to_prev(s3, bp)

\* the reads of mm.c:217-219
coalesce_reads(s, bp) ==
  Chk(Chk(Chk(Chk(s, Sub(bp, OVERHEAD)), HDRP(PREV_BLKP(s, bp))), HDRP(bp)),
      HDRP(NEXT_BLKP(s, bp)))

coalesce_cases(s, bp, prev_alloc, next_alloc, size) ==
  IF prev_alloc = 1 /\ next_alloc = 1 THEN coalesce_none(s, bp)
  ELSE IF prev_alloc = 1 /\ next_alloc = 0
  THEN coalesce_next(Chk(s, HDRP(NEXT_BLKP(s, bp))), bp,
                     Add(size, GET_SIZE(s, HDRP(NEXT_BLKP(s, bp)))))
  ELSE IF prev_alloc = 0 /\ next_alloc = 1
  THEN coalesce_prev(Chk(s, HDRP(PREV_BLKP(s, bp))), bp,
                     Add(size, GET_SIZE(s, HDRP(PREV_BLKP(s, bp)))))
  ELSE coalesce_both(s, bp,
                     Add(size, Add(GET_SIZE(s, HDRP(NEXT_BLKP(s, bp))),
                                   GET_SIZE(s, HDRP(PREV_BLKP(s, bp))))))

coalesce(s, bp) ==
  coalesce_cases(coalesce_reads(s, bp), bp,
                 GET_ALLOC(s, HDRP(PREV_BLKP(s, bp))),
                 GET_ALLOC(s, HDRP(NEXT_BLKP(s, bp))),
                 GET_SIZE(s, HDRP(bp)))

-----------------------------------------------------------------------------
(* mm_malloc, mm.c:102-117 *)

\* mm.c:109
mm_malloc_fit(fit, tracker, full_size, plo, phi) ==
  [st |-> IF fit.st.fault # "none" THEN fit.st
          ELSE set_allocated(fit.st, fit.ptr, full_size),
   tracker |-> tracker, ret |-> fit.ptr, extended |-> FALSE, req |-> 0,
   extBlock |-> 0, needed |-> full_size, lo |-> plo, hi |-> phi]

\* mm.c:111-114
mm_malloc_extended(e, full_size) ==
  [st |-> IF e.ret # NULL THEN set_allocated(e.st, e.st.head, full_size) ELSE e.st,
   tracker |-> e.tracker, ret |-> IF e.ret # NULL THEN e.st.head ELSE NULL,
   extended |-> TRUE, req |-> e.req, extBlock |-> GET_SIZE(e.st, HDRP(e.st.head)),
   needed |-> full_size, lo |-> e.lo, hi |-> e.hi]

\* mm.c:108-114; fitRet is what find_fit returned, fitOk that it returned at all
mm_malloc_found(fit, tracker, full_size, where, plo, phi) ==
  (IF fit.ptr # NULL \/ fit.st.fault # "none"
   THEN mm_malloc_fit(fit, tracker, full_size, plo, phi)
   ELSE mm_malloc_extended(extend(fit.st, tracker, full_size, where, plo, phi), full_size))
  @@ [fitRet |-> fit.ptr, fitOk |-> fit.st.fault = "none"]

mm_malloc_sized(s, tracker, full_size, where, plo, phi) ==
  mm_malloc_found(find_fit(s, full_size), tracker, full_size, where, plo, phi)

mm_malloc(s, tracker, size, where, plo, phi) ==
  mm_malloc_sized(s, tracker, ALIGN(Add(size, OVERHEAD)), where, plo, phi)

-----------------------------------------------------------------------------
(* mm_free, mm.c:122-139 *)

\* the shrink test of mm.c:132-133 on the coalesced block
shrink_test(s, pointer) ==
  /\ GET_SIZE(s, Sub(pointer, 24)) = OVERHEAD
  /\ GET_SIZE(s, Add(FTRP(s, pointer), 8)) = 0
  /\ GET_SIZE(s, HDRP(pointer)) >= SHRINK

\* the reads the shrink test makes, in order, with && short circuit
shrink_reads(s, pointer) ==
  IF GET_SIZE(s, Sub(pointer, 24)) # OVERHEAD THEN Chk(s, Sub(pointer, 24))
  ELSE Chk(Chk(Chk(s, Sub(pointer, 24)), HDRP(pointer)), Add(FTRP(s, pointer), 8))

\* mm.c:135-136, after delete_node(pointer)
mm_free_unmap(s, pointer) ==
  [st |-> Chk(s, HDRP(pointer)), bp |-> pointer, unmap |-> TRUE,
   addr |-> Sub(pointer, PAGE_OVERHEAD),
   amt |-> Add(GET_SIZE(s, HDRP(pointer)), PAGE_OVERHEAD)]

\* mm.c:132-138, the reads of the test made
mm_free_shrink(s, pointer) ==
  IF s.fault = "none" /\ shrink_test(s, pointer)
  THEN mm_free_unmap(delete_node(s, pointer), pointer)
  ELSE [st |-> s, bp |-> pointer, unmap |-> FALSE, addr |-> 0, amt |-> 0]

\* co: the heap as coalesce returned it (mm.c:129)
mm_free_coalesced(c) == mm_free_shrink(shrink_reads(c.st, c.bp), c.bp) @@ [co |-> c.st]

\* mm.c:127-129
mm_free_sized(s, ptr, size) ==
  mm_free_coalesced(coalesce(PutFtr(PutHdr(s, ptr, PACK(size, 0)), ptr, PACK(size, 0)), ptr))

mm_free(s, ptr) == mm_free_sized(Chk(s, HDRP(ptr)), ptr, GET_SIZE(s, HDRP(ptr)))

-----------------------------------------------------------------------------
(* The allocator as a state machine *)

Cur == [mem |-> mem, head |-> list_head, maps |-> maps, fault |-> "none"]

NoOp == [op |-> "none", arg |-> 0, ret |-> 0, extended |-> FALSE, req |-> 0,
         mapFail |-> FALSE, extBlock |-> 0, needed |-> 0,
         unmap |-> FALSE, unAddr |-> 0, unAmt |-> 0, unMatch |-> FALSE, unLive |-> FALSE,
         sole |-> FALSE, chunk |-> {},
         blk |-> 0, split |-> FALSE, recorded |-> FALSE, preList |-> <<>>, firstFit |-> 0,
         prevFree |-> FALSE, nextFree |-> FALSE, prevBp |-> 0, nextBp |-> 0, sum |-> 0,
         fitOk |-> FALSE, fitRet |-> 0,
         coOk |-> FALSE, coHdr |-> 0, coFtr |-> 0, coList |-> <<>>,
         roundTrip |-> FALSE, rtSize |-> 0]

StatusOf(fault) == IF fault = "hang" THEN "hung"
                   ELSE IF fault = "misaligned" THEN "misaligned" ELSE "crashed"

\* the Free List from the head by next links, in order; last is where the walk
\* stopped (NULL for a list that ends)
RECURSIVE ListSeq(_, _, _)
ListSeq(s, cur, acc) ==
  IF cur = NULL \/ ~Valid(s, cur) \/ ~Valid(s, Add(cur, 8))
     \/ cur \in {acc[i] : i \in 1..Len(acc)}
  THEN [seq |-> acc, last |-> cur]
  ELSE ListSeq(s, GET(s, Add(cur, 8)), Append(acc, cur))

\* seq without the node x
Remove(seq, x) == SelectSeq(seq, LAMBDA y : y # x)

MinOf(S) == CHOOSE i \in S : \A j \in S : i <= j

FirstAt(seq, idx) == IF idx = {} THEN NULL ELSE seq[MinOf(idx)]

\* the first node of seq, in order, whose block size is at least asize
FirstEligible(s, seq, asize) ==
  FirstAt(seq, {i \in 1..Len(seq) : GET_SIZE(s, HDRP(seq[i])) >= asize})

\* the mapped region holding address p
ChunksOf(ms, p) == {r \in ms : r.base <= p /\ p < r.base + r.size}

\* state after process start and the first mm_init()
InitWith(sizes, bound) ==
  /\ mem = <<>>
  /\ maps = {}
  /\ list_head = NULL
  /\ initial_mapped = 0
  /\ status = "ok"
  /\ lo = Base
  /\ hi = Base
  /\ live = {}
  /\ carved = {}
  /\ lastOp = NoOp
  /\ reqs = <<0, 0>>
  /\ only64 = TRUE
  /\ nOps = 0
  /\ menu = sizes
  /\ limit = bound

Init == InitWith(Sizes, MaxOps)

\* mm_init called again, mm.c:92-95.  The caller drops the pointers it held.
MmInit ==
  /\ status = "ok"
  /\ nOps < limit
  /\ list_head' = NULL
  /\ live' = {}
  /\ carved' = {}
  /\ lastOp' = [NoOp EXCEPT !.op = "init"]
  /\ reqs' = <<0, 0>>
  /\ only64' = TRUE
  /\ nOps' = nOps + 1
  /\ UNCHANGED <<mem, maps, initial_mapped, status, lo, hi, menu, limit>>

\* where the Page Provider may place the region of a request
Places(n) ==
  IF find_fit(Cur, ALIGN(Add(n, OVERHEAD))).ptr # NULL THEN {"hi"}
  ELSE IF lo = hi THEN {"hi", "fail"} ELSE {"hi", "lo", "fail"}

MallocOp(r, n, where) ==
  [NoOp EXCEPT !.op = "malloc", !.arg = n, !.extended = r.extended,
               !.req = r.req, !.extBlock = r.extBlock, !.needed = r.needed,
               !.mapFail = r.extended /\ where = "fail",
               !.ret = IF r.st.fault # "none" THEN 0 ELSE r.ret,
               !.blk = IF r.extended THEN r.extBlock ELSE GET_SIZE(Cur, HDRP(r.ret)),
               !.split = /\ r.st.fault = "none" /\ r.ret # NULL
                         /\ (IF r.extended THEN r.extBlock ELSE GET_SIZE(Cur, HDRP(r.ret)))
                               - r.needed > PAGE_OVERHEAD,
               !.recorded = r.tracker # initial_mapped,
               !.fitOk = r.fitOk, !.fitRet = r.fitRet,
               !.preList = ListSeq(Cur, list_head, <<>>).seq,
               !.firstFit = FirstEligible(Cur, ListSeq(Cur, list_head, <<>>).seq, r.needed)]

MallocStep(r, n, where) ==
  /\ nOps' = nOps + 1
  /\ only64' = (only64 /\ n = 64)
  /\ reqs' = IF r.extended THEN <<reqs[2], r.req>> ELSE reqs
  /\ lastOp' = MallocOp(r, n, where)
  /\ IF r.st.fault # "none"
     THEN /\ status' = StatusOf(r.st.fault)
          /\ UNCHANGED <<mem, maps, list_head, initial_mapped, lo, hi, live, carved>>
     ELSE /\ mem' = r.st.mem
          /\ maps' = r.st.maps
          /\ list_head' = r.st.head
          /\ initial_mapped' = r.tracker
          /\ lo' = r.lo
          /\ hi' = r.hi
          /\ live' = IF r.ret = NULL THEN live
                     ELSE live \cup {[id |-> nOps, ptr |-> r.ret, n |-> n,
                                      sz |-> GET_SIZE(r.st, HDRP(r.ret))]}
          /\ carved' = carved \cup {c.base : c \in ChunksOf(r.st.maps, r.ret)}
          /\ UNCHANGED status

Malloc(n, where) ==
  /\ status = "ok"
  /\ nOps < limit
  /\ MallocStep(mm_malloc(Cur, initial_mapped, n, where, lo, hi), n, where)
  /\ UNCHANGED <<menu, limit>>

MmMalloc == \E n \in menu : \E where \in Places(n) : Malloc(n, where)

\* mm_free on a live block.  A mem_unmap call that names no mapped region either
\* aborts the process or is refused by the provider and ignored by mm_free.
FreeOp(r, b, match) ==
  [NoOp EXCEPT !.op = "free", !.arg = b.ptr, !.ret = r.bp,
               !.unmap = r.unmap, !.unAddr = r.addr, !.unAmt = r.amt,
               !.unMatch = match,
               !.unLive = r.unmap /\ \E x \in live \ {b} :
                            ChunksOf(maps, x.ptr) \cap ChunksOf(maps, r.bp) # {},
               !.chunk = ChunksOf(maps, b.ptr),
               !.sole = /\ ChunksOf(maps, b.ptr) # {}
                        /\ \A x \in live \ {b} :
                              ChunksOf(maps, x.ptr) \cap ChunksOf(maps, b.ptr) = {},
               !.preList = ListSeq(Cur, list_head, <<>>).seq,
               !.prevBp = PREV_BLKP(Cur, b.ptr),
               !.nextBp = NEXT_BLKP(Cur, b.ptr),
               !.prevFree = GET_ALLOC(Cur, HDRP(PREV_BLKP(Cur, b.ptr))) = 0,
               !.nextFree = GET_ALLOC(Cur, HDRP(NEXT_BLKP(Cur, b.ptr))) = 0,
               !.sum = GET_SIZE(Cur, HDRP(b.ptr))
                       + (IF GET_ALLOC(Cur, HDRP(PREV_BLKP(Cur, b.ptr))) = 0
                          THEN GET_SIZE(Cur, HDRP(PREV_BLKP(Cur, b.ptr))) ELSE 0)
                       + (IF GET_ALLOC(Cur, HDRP(NEXT_BLKP(Cur, b.ptr))) = 0
                          THEN GET_SIZE(Cur, HDRP(NEXT_BLKP(Cur, b.ptr))) ELSE 0),
               !.coOk = r.co.fault = "none",
               !.coHdr = GET(r.co, HDRP(r.bp)),
               !.coFtr = GET(r.co, FTRP(r.co, r.bp)),
               !.coList = ListSeq(r.co, r.co.head, <<>>).seq,
               !.roundTrip = lastOp.op = "malloc" /\ lastOp.split /\ lastOp.ret = b.ptr,
               !.rtSize = lastOp.blk]

FreeDone(fin) ==
  /\ mem' = fin.mem
  /\ maps' = fin.maps
  /\ list_head' = fin.head
  /\ UNCHANGED status

FreeStep(r, b, match) ==
  /\ nOps' = nOps + 1
  /\ only64' = FALSE
  /\ live' = live \ {b}
  /\ lastOp' = FreeOp(r, b, match)
  /\ \E outcome \in IF r.st.fault = "none" /\ r.unmap /\ ~match
                    THEN {"ignored", "abort"} ELSE {"ignored"} :
       IF r.st.fault # "none" \/ outcome = "abort"
       THEN /\ status' = IF r.st.fault # "none" THEN StatusOf(r.st.fault) ELSE "crashed"
            /\ UNCHANGED <<mem, maps, list_head>>
       ELSE FreeDone(IF match THEN mem_unmap(r.st, r.addr, r.amt) ELSE r.st)

FreeCall(r, b) == FreeStep(r, b, r.unmap /\ UnmapMatches(r.st, r.addr, r.amt))

Free(b) ==
  /\ status = "ok"
  /\ nOps < limit
  /\ FreeCall(mm_free(Cur, b.ptr), b)
  /\ UNCHANGED <<initial_mapped, lo, hi, carved, reqs, menu, limit>>

MmFree == \E b \in live : Free(b)

\* mm_init is called once, before any other operation
Next == MmMalloc \/ MmFree

Spec == Init /\ [][Next]_vars

\* larger requests around the growth cap
InitGrow == InitWith(SizesGrow, MaxOpsGrow)

SpecGrow == InitGrow /\ [][Next]_vars

\* a caller that calls mm_init again between runs of requests
NextReinit == MmInit \/ MmMalloc \/ MmFree

SpecReinit == Init /\ [][NextReinit]_vars

\* repeated mm_malloc(64) with no release, regions placed upwards
InitDouble == InitWith({64}, MaxOps64)

Malloc64 == Malloc(64, "hi")

SpecDouble == InitDouble /\ [][Malloc64]_vars

-----------------------------------------------------------------------------
(* Properties *)

\* the blocks reachable from the Free List head by next links
RECURSIVE ListNodes(_, _, _)
ListNodes(s, cur, seen) ==
  IF cur = NULL \/ cur \in seen \/ ~Valid(s, HDRP(cur)) \/ ~Valid(s, Add(cur, 8)) THEN seen
  ELSE ListNodes(s, GET(s, Add(cur, 8)), seen \cup {cur})

FreeListNodes == ListNodes(Cur, list_head, {})

InChunk(c, p) == c.base <= p /\ p < c.base + c.size

\* the bytes of a live block, header to footer: [ptr - 8, ptr - 8 + sz)
BlockLo(b) == b.ptr - 8
BlockHi(b) == b.ptr - 8 + b.sz

\* C1: any two live blocks occupy disjoint byte ranges, and every live block
\* lies, header to footer, inside one currently mapped chunk.
C1_LiveBlocksDisjointAndMapped ==
  /\ \A a \in live : \A b \in live :
       a # b => (BlockHi(a) <= BlockLo(b) \/ BlockHi(b) <= BlockLo(a))
  /\ \A a \in live : \E c \in maps :
       c.base <= BlockLo(a) /\ BlockHi(a) <= c.base + c.size

\* C2: whenever mm_malloc extends the pool, the free block extend leaves at the
\* Free List head is at least as large as the needed block size.
C2_ExtendCoversRequest ==
  (lastOp.op = "malloc" /\ lastOp.extended /\ ~lastOp.mapFail)
     => lastOp.extBlock >= lastOp.needed

\* C3: the block a successful mm_malloc(n) hands out has at least n bytes between
\* its header and its footer and lies inside the interior of its chunk, apart from
\* every other live block.
C3_SufficientCapacity ==
  (lastOp.op = "malloc" /\ status = "ok" /\ lastOp.ret # NULL) =>
     \E b \in live :
        /\ b.id = nOps - 1
        /\ b.ptr = lastOp.ret
        /\ b.sz - OVERHEAD >= b.n
        /\ \E c \in maps : c.base + 24 <= BlockLo(b) /\ BlockHi(b) <= c.base + c.size - 8
        /\ \A a \in live : a # b => (BlockHi(a) <= BlockLo(b) \/ BlockHi(b) <= BlockLo(a))

\* C4: mm_free calls mem_unmap only with the start address and size of a mapped
\* region, and only when no live block remains in that chunk.
C4_UnmapOnlyWholeFreeChunk ==
  lastOp.unmap => (lastOp.unMatch /\ ~lastOp.unLive)

\* C5: when mem_map fails, mm_malloc returns NULL and the allocator carries on
\* with its state unchanged.
C5_MapFailureReturnsNull ==
  lastOp.mapFail => (status = "ok" /\ lastOp.ret = NULL)

\* C6: the payload address a successful mm_malloc returns is a multiple of 16.
C6_Aligned ==
  (lastOp.op = "malloc" /\ status = "ok" /\ lastOp.ret # NULL)
     => lastOp.ret % ALIGNMENT = 0

C6_Witness ==
  /\ lastOp.op = "malloc" /\ status = "ok" /\ lastOp.ret # NULL
  /\ lastOp.arg = 100
  /\ ~lastOp.extended
  /\ Cardinality(live) >= 2

\* C7: once every block carved from a mapped chunk has been released, in any
\* order, the Free List holds exactly one block of that chunk, of the chunk's
\* usable size (mapped size minus 32).
C7_CoalescingClosure ==
  \A c \in maps :
     (c.base \in carved /\ \A b \in live : ~InChunk(c, b.ptr)) =>
        IF status = "ok"
        THEN /\ {p \in FreeListNodes : InChunk(c, p)} = {c.base + 32}
             /\ GET(Cur, c.base + 24) = PACK(c.size - PAGE_OVERHEAD, 0)
        ELSE ~(lastOp.op = "free" /\ InChunk(c, lastOp.arg))

\* C8: releasing the only live block of a chunk mapped at 10 pages or more takes
\* the chunk's free block off the Free List and unmaps the chunk; a smaller chunk
\* stays mapped with its free block in the Free List.
C8_ShrinkAtTenPageChunk ==
  (lastOp.op = "free" /\ lastOp.sole) =>
     \A c \in lastOp.chunk :
        IF c.size >= SHRINK
        THEN /\ status = "ok" /\ c \notin maps /\ lastOp.unmap /\ lastOp.unMatch
             /\ \A p \in FreeListNodes : ~InChunk(c, p)
        ELSE /\ status = "ok" /\ c \in maps /\ ~lastOp.unmap
             /\ (c.base + 32) \in FreeListNodes

\* C9: after mm_init the Free List head is empty and the growth tracker holds
\* its starting value.
C9_InitResetsState ==
  lastOp.op = "init" => (list_head = NULL /\ initial_mapped = 0)

\* C10: under repeated mm_malloc(64) since mm_init, each chunk requested from the
\* Page Provider is twice the previous one as long as twice the previous one is
\* within 60 pages, and equal to the previous one from then on.
C10_DoublingWithCap ==
  (only64 /\ reqs[1] # 0) =>
     reqs[2] = IF 2 * reqs[1] <= THRESHOLD THEN 2 * reqs[1] ELSE reqs[1]

C10_Witness ==
  /\ only64 /\ status = "ok"
  /\ lastOp.op = "malloc" /\ lastOp.extended
  /\ reqs = <<4 * mem_pagesize, 8 * mem_pagesize>>

\* C11: every block in the Free List has size at least 32, so that its prev and
\* next link words lie inside its own payload.
C11_FreeBlocksHoldLinks ==
  status = "ok" => \A p \in FreeListNodes : GET_SIZE(Cur, HDRP(p)) >= 2 * OVERHEAD

\* the blocks of chunk c in address order: from the first block, by header sizes,
\* up to the epilogue position or to where the walk leaves the chunk's interior
RECURSIVE ChunkWalk(_, _, _, _)
ChunkWalk(s, c, bp, acc) ==
  IF \/ HDRP(bp) >= c.base + c.size - 8
     \/ bp < c.base + PAGE_OVERHEAD
     \/ GET_SIZE(s, HDRP(bp)) = 0
  THEN [blocks |-> acc, end |-> bp]
  ELSE ChunkWalk(s, c, NEXT_BLKP(s, bp), Append(acc, bp))

Blocks(c) == ChunkWalk(Cur, c, c.base + PAGE_OVERHEAD, <<>>).blocks
WalkEnd(c) == ChunkWalk(Cur, c, c.base + PAGE_OVERHEAD, <<>>).end

IsFree(bp) == GET_ALLOC(Cur, HDRP(bp)) = 0

\* the free blocks of all mapped chunks
FreeBlocks == UNION {{Blocks(c)[i] : i \in {j \in 1..Len(Blocks(c)) : IsFree(Blocks(c)[j])}} : c \in maps}

FreeList == ListSeq(Cur, list_head, <<>>).seq
FreeListEnd == ListSeq(Cur, list_head, <<>>).last

\* C12: between operations every block of every mapped chunk has a footer equal
\* to its header, and the size in it is a multiple of 16.
C12_HeaderEqualsFooter ==
  status = "ok" =>
    \A c \in maps : \A i \in 1..Len(Blocks(c)) :
       /\ GET(Cur, FTRP(Cur, Blocks(c)[i])) = GET(Cur, HDRP(Blocks(c)[i]))
       /\ GET(Cur, HDRP(Blocks(c)[i])) % 16 \in {0, 1}

\* C13: in every mapped chunk the prologue header and footer stay (16, allocated)
\* and the epilogue header stays (0, allocated).
C13_SentinelsIntact ==
  status = "ok" =>
    \A c \in maps :
       /\ GET(Cur, c.base + 8) = PACK(OVERHEAD, 1)
       /\ GET(Cur, c.base + 16) = PACK(OVERHEAD, 1)
       /\ GET(Cur, c.base + c.size - 8) = PACK(0, 1)

\* C19: the nodes reachable from the Free List head are exactly the free blocks of
\* the mapped chunks, each once; the list ends, the head's prev is NULL and every
\* node is the prev of its next.
C19_FreeListConsistent ==
  status = "ok" =>
    /\ FreeListEnd = NULL
    /\ {FreeList[i] : i \in 1..Len(FreeList)} = FreeBlocks
    /\ list_head # NULL => GET(Cur, list_head) = NULL
    /\ \A i \in 1..(Len(FreeList) - 1) : GET(Cur, FreeList[i + 1]) = FreeList[i]

\* C20: no two adjacent blocks of a chunk are both free, and walking a mapped chunk
\* by block sizes from its first block ends exactly on the epilogue header.
C20_CoalescedAndTiled ==
  status = "ok" =>
    \A c \in maps :
       /\ HDRP(WalkEnd(c)) = c.base + c.size - 8
       /\ \A i \in 1..(Len(Blocks(c)) - 1) :
             ~(IsFree(Blocks(c)[i]) /\ IsFree(Blocks(c)[i + 1]))

\* the Free List after coalesce as C16 describes it: the successor, when it was
\* free, taken out, and the freed block pushed at the head unless it merged into
\* a free predecessor
ExpectedCoList ==
  (IF lastOp.prevFree THEN <<>> ELSE <<lastOp.arg>>)
    \o (IF lastOp.nextFree THEN Remove(lastOp.preList, lastOp.nextBp) ELSE lastOp.preList)

\* C14: when mm_malloc splits a free block of size S and the allocated part is
\* released right away, coalesce returns one free block at the original address,
\* at the Free List head, with header and footer (S, free); it stays so unless
\* mm_free goes on to unmap the chunk.
C14_SplitCoalesceRoundTrip ==
  (lastOp.op = "free" /\ lastOp.roundTrip) =>
     /\ lastOp.coOk
     /\ lastOp.ret = lastOp.arg
     /\ lastOp.coHdr = PACK(lastOp.rtSize, 0)
     /\ lastOp.coFtr = PACK(lastOp.rtSize, 0)
     /\ lastOp.coList # <<>> /\ Head(lastOp.coList) = lastOp.arg
     /\ (lastOp.unmap \/ (status = "ok" /\ lastOp.arg \in FreeBlocks
                                        /\ GET(Cur, HDRP(lastOp.arg)) = PACK(lastOp.rtSize, 0)))

\* C15: set_allocated takes the block off the Free List; when the block's size
\* exceeds the needed size by more than 32 the block gets the needed size and the
\* remainder becomes a free block at the Free List head, otherwise the block is
\* allocated whole and no free block is made.
C15_SplitIffRemainderOver32 ==
  (lastOp.op = "malloc" /\ status = "ok" /\ lastOp.ret # NULL) =>
     IF lastOp.blk - lastOp.needed > PAGE_OVERHEAD
     THEN /\ GET(Cur, HDRP(lastOp.ret)) = PACK(lastOp.needed, 1)
          /\ GET(Cur, FTRP(Cur, lastOp.ret)) = PACK(lastOp.needed, 1)
          /\ FreeList = <<lastOp.ret + lastOp.needed>> \o Remove(lastOp.preList, lastOp.ret)
          /\ GET(Cur, HDRP(list_head)) = PACK(lastOp.blk - lastOp.needed, 0)
          /\ GET(Cur, FTRP(Cur, list_head)) = PACK(lastOp.blk - lastOp.needed, 0)
     ELSE /\ GET(Cur, HDRP(lastOp.ret)) = PACK(lastOp.blk, 1)
          /\ GET(Cur, FTRP(Cur, lastOp.ret)) = PACK(lastOp.blk, 1)
          /\ FreeList = Remove(lastOp.preList, lastOp.ret)

\* C16: when coalesce merges the freed block into a free predecessor, the
\* predecessor keeps its place in the Free List and its size grows to the sum of
\* the merged sizes, a free successor being the only node taken out; when the
\* predecessor is allocated the resulting block is pushed at the head.
C16_CoalesceListFrame ==
  (lastOp.op = "free" /\ lastOp.coOk) =>
     /\ lastOp.ret = IF lastOp.prevFree THEN lastOp.prevBp ELSE lastOp.arg
     /\ lastOp.coList = ExpectedCoList
     /\ lastOp.coHdr = PACK(lastOp.sum, 0)

\* C17: find_fit returns the first block, in Free List order from the head, whose
\* size is at least the needed size, and NULL exactly when the list has none.
C17_FirstFit ==
  (lastOp.op = "malloc" /\ lastOp.fitOk) =>
     /\ lastOp.fitRet = lastOp.firstFit
     /\ lastOp.extended <=> lastOp.fitRet = NULL
     /\ (status = "ok" /\ ~lastOp.extended) => lastOp.ret = lastOp.fitRet

C17_Witness ==
  /\ lastOp.op = "malloc" /\ status = "ok" /\ ~lastOp.extended
  /\ Len(lastOp.preList) >= 2
  /\ lastOp.ret # Head(lastOp.preList)

\* C18 as stated: when extend records a new tracker value, the tracker equals the
\* size passed to mem_map.
C18_TrackerIsMappedSize ==
  (lastOp.op = "malloc" /\ lastOp.extended /\ lastOp.recorded /\ status = "ok")
     => initial_mapped = lastOp.req

\* C18 amended: when extend records a new tracker value, the size passed to
\* mem_map is the tracker plus the chunk overhead rounded up to pages, one page
\* more than the tracker.
C18_TrackerIsMappedSizeLessPage ==
  (lastOp.op = "malloc" /\ lastOp.extended /\ lastOp.recorded /\ status = "ok")
     => lastOp.req = initial_mapped + mem_pagesize

C18_Witness ==
  /\ lastOp.op = "malloc" /\ lastOp.extended /\ lastOp.recorded /\ status = "ok"
  /\ reqs[1] # 0
  /\ initial_mapped # lastOp.req

====
